---- MODULE Spec2Model ----
(***************************************************************************)
(* Model of flask_security/totp.py: the Totp wrapper around passlib's     *)
(* TOTP class.  Totp.verify_totp reads the user's last counter through    *)
(* get_last_counter, hands token, envelope, window and last counter to    *)
(* passlib's TOTP.verify, and on a match calls set_last_counter and       *)
(* returns True; a TokenError makes it return False; any other exception  *)
(* leaves verify_totp to its caller.                                       *)
(*                                                                         *)
(* Time is in seconds.  A secret is identified with the sequence of codes *)
(* it generates, one per counter, so that every possible coincidence of   *)
(* codes between counters is covered.                                     *)
(***************************************************************************)
EXTENDS Integers, FiniteSets

\* ---------------------------------------------------------------- bounds
Period == 2        \* seconds per time step (the library default, scaled down)
MaxTime == 3       \* the clock runs from 0 to MaxTime seconds
MaxWindow == 2     \* verify_totp is called with window in 0..MaxWindow seconds
NumCodes == 2      \* number of distinct well-formed tokens

\* Python's None, where a counter is expected
None == -1
Users == {"u1", "u2"}
\* the well-formed tokens, and one that does not parse as a token
Codes == 0..(NumCodes - 1)
Malformed == NumCodes
Tokens == Codes \cup {Malformed}
Windows == 0..MaxWindow
MaxCounter == (MaxTime + MaxWindow) \div Period
Counters == 0..MaxCounter
Secrets == [Counters -> Codes]
Threads == {"t1", "t2"}
Envelopes == {"enrolled", "unknown_tag", "tampered"}
\* the ids (tags) of application secrets and the application secrets themselves
KeyIds == {1, 2}
Materials == Codes
\* what Totp.__init__ can be given as secrets: a dict, or something else (a
\* list, say), with the entries it holds
Keyrings == UNION {[ids -> Materials] : ids \in SUBSET KeyIds}
Configs == [isdict : BOOLEAN, secrets : Keyrings]

VARIABLES
    now,          \* the clock, in seconds
    secret,       \* the enrolled secret, as the codes it generates
    override,     \* TRUE: a subclass stores the last counter; FALSE: Totp's defaults
    lastCounter,  \* the subclass's store: user -> counter or None
    running,      \* the threads that serve verify_totp calls
    workload,     \* the requests the callers make: each thread for which users,
                  \* with which envelopes and windows
    call,         \* per thread: the verify_totp call in progress or just finished;
                  \* a finished call keeps its arguments, the time it ran at, its
                  \* outcome and the user's accepted counter before it (prior)
    accepted,     \* history: per user, the largest counter accepted so far, or None
    totp,         \* the Totp factory the application holds, if any, with its keyring
    out,          \* what the last call other than verify_totp handed to its caller
    faulty        \* TRUE: the subclass's set_last_counter can raise

vars == <<now, secret, override, lastCounter, running, workload, call, accepted,
          totp, out, faulty>>

Max(a, b) == IF a >= b THEN a ELSE b

\* ------------------------------------------------------- the passlib side
\* TOTP._time_to_counter: floor(time / period)
time_to_counter(time) == time \div Period

\* TOTP._generate(counter).token for the given key
generate(key, counter) == key[counter]

\* Totp.generate_totp_password at the given time: the code of its time step
generate_totp_password(key, time) == generate(key, time_to_counter(time))

\* the outcomes of a library call: a matched counter or the exception raised
Matched(counter) == [err |-> "none", counter |-> counter]
Raised(err) == [err |-> err, counter |-> None]

\* mutant of find_match: the search returns the last matching counter
find_match_last(key, token, start, end) ==
    LET s == IF start < 0 THEN 0 ELSE start
        hits == {c \in s..(end - 1) : generate(key, c) = token}
    IN  IF end <= s \/ hits = {} THEN Raised("InvalidTokenError")
        ELSE Matched(CHOOSE c \in hits : \A d \in hits : c >= d)

\* TOTP._find_match: the first counter of start..end-1, ascending, whose code
\* is the token; InvalidTokenError when there is none
find_match(key, token, start, end) ==
    LET s == IF start < 0 THEN 0 ELSE start
        hits == {c \in s..(end - 1) : generate(key, c) = token}
    IN  IF end <= s \/ hits = {} THEN Raised("InvalidTokenError")
        ELSE Matched(CHOOSE c \in hits : \A d \in hits : c <= d)

\* mutant of match: the last time step of the window is left out
match_end_exclusive(key, token, time, window, last_counter) ==
    IF token = Malformed THEN Raised("MalformedTokenError")
    ELSE
    LET last == IF last_counter = None THEN -1 ELSE last_counter
        start == Max(last, time_to_counter(time - window))
        end == time_to_counter(time + window)
        found == find_match(key, token, start, end)
    IN  IF found.err = "none" /\ found.counter = last
        THEN Raised("UsedTokenError")
        ELSE found

\* mutant of match: the search starts one time step before the window
match_start_early(key, token, time, window, last_counter) ==
    IF token = Malformed THEN Raised("MalformedTokenError")
    ELSE
    LET last == IF last_counter = None THEN -1 ELSE last_counter
        start == Max(last, time_to_counter(time - window) - 1)
        end == time_to_counter(time + window) + 1
        found == find_match(key, token, start, end)
    IN  IF found.err = "none" /\ found.counter = last
        THEN Raised("UsedTokenError")
        ELSE found

\* mutant of match: reuse = True, the counter of last_counter matches again
match_reuse(key, token, time, window, last_counter) ==
    IF token = Malformed THEN Raised("MalformedTokenError")
    ELSE
    LET last == IF last_counter = None THEN -1 ELSE last_counter
        start == Max(last, time_to_counter(time - window))
        end == time_to_counter(time + window) + 1
    IN  find_match(key, token, start, end)

\* mutant of match: the search starts above last_counter, so no match is
\* ever the used counter
match_above_last(key, token, time, window, last_counter) ==
    IF token = Malformed THEN Raised("MalformedTokenError")
    ELSE
    LET last == IF last_counter = None THEN -1 ELSE last_counter
        start == Max(last + 1, time_to_counter(time - window))
        end == time_to_counter(time + window) + 1
    IN  find_match(key, token, start, end)

\* mutant of match: the search covers the whole window, last_counter only
\* marks the one counter that counts as used
match_from_window(key, token, time, window, last_counter) ==
    IF token = Malformed THEN Raised("MalformedTokenError")
    ELSE
    LET last == IF last_counter = None THEN -1 ELSE last_counter
        start == time_to_counter(time - window)
        end == time_to_counter(time + window) + 1
        found == find_match(key, token, start, end)
    IN  IF found.err = "none" /\ found.counter = last
        THEN Raised("UsedTokenError")
        ELSE found

\* TOTP.match(token, time, window, last_counter) with reuse = False
match(key, token, time, window, last_counter) ==
    IF token = Malformed THEN Raised("MalformedTokenError")
    ELSE
    LET last == IF last_counter = None THEN -1 ELSE last_counter
        start == Max(last, time_to_counter(time - window))
        end == time_to_counter(time + window) + 1
        found == find_match(key, token, start, end)
    IN  IF found.err = "none" /\ found.counter = last
        THEN Raised("UsedTokenError")
        ELSE found

\* TOTP.from_source(totp_secret): the keys the envelope can decrypt to, or the
\* exception raised.  An unknown key tag raises KeyError.  The envelope has no
\* integrity check: a tampered one either fails to parse (ValueError) or
\* decrypts to some other key.
from_source(env) ==
    CASE env = "enrolled" -> {[err |-> "none", key |-> secret]}
      [] env = "unknown_tag" -> {[err |-> "KeyError", key |-> secret]}
      [] env = "tampered" ->
            {[err |-> "none", key |-> k] : k \in Secrets \ {secret}}
            \cup {[err |-> "ValueError", key |-> secret]}

\* TOTP.verify(token, source, window, last_counter) at the given time, with
\* the source decrypted as src
verify(src, token, time, window, last_counter) ==
    IF src.err # "none" THEN Raised(src.err)
    ELSE match(src.key, token, time, window, last_counter)

\* ------------------------------------------------------------ Totp itself
\* mutant of get_last_counter: the base class remembers what it accepted
get_last_counter_tracking(user) ==
    IF override THEN lastCounter[user] ELSE accepted[user]

\* Totp.get_last_counter, or the subclass's override
get_last_counter(user) ==
    IF override THEN lastCounter[user] ELSE None

\* mutant of last_counter_argument: TOTP.verify is entered without the last
\* counter, which would be fetched only once a counter has matched
last_counter_argument_lazy(user) == [reads |-> 0, last |-> None]

\* the argument last_counter=self.get_last_counter(user) of TOTP.verify: as
\* every argument it is evaluated before TOTP.verify is entered, by one call
\* of get_last_counter
last_counter_argument(user) == [reads |-> 1, last |-> get_last_counter(user)]

\* mutant of set_last_counter: the counter of the current time is stored
\* instead of the counter that matched
set_last_counter_expected(user, tmatch) ==
    IF override THEN [lastCounter EXCEPT ![user] = time_to_counter(now)]
    ELSE lastCounter

\* mutant of set_last_counter: the subclass keeps one last counter for all
\* users
set_last_counter_global(user, tmatch) ==
    IF override THEN [u \in Users |-> tmatch.counter]
    ELSE lastCounter

\* Totp.set_last_counter, or the subclass's override storing tmatch.counter
set_last_counter(user, tmatch) ==
    IF override THEN [lastCounter EXCEPT ![user] = tmatch.counter]
    ELSE lastCounter

\* mutant of IsTokenError: only InvalidTokenError and its subclass are caught
IsTokenError_invalid(err) ==
    err \in {"MalformedTokenError", "InvalidTokenError"}

\* passlib.exc.TokenError and its subclasses, which verify_totp catches
IsTokenError(err) ==
    err \in {"MalformedTokenError", "InvalidTokenError", "UsedTokenError"}

\* mutant of result_of: the except clause catches every exception
result_of_swallow(tmatch) ==
    IF tmatch.err = "none" THEN "True" ELSE "False"

\* what verify_totp hands to its caller: the try body returns True, the
\* except clause turns a TokenError into False, anything else is raised
result_of(tmatch) ==
    IF tmatch.err = "none" THEN "True"
    ELSE IF IsTokenError(tmatch.err) THEN "False"
    ELSE "raise"

\* mutant of writes_of: set_last_counter sits in a finally clause
writes_of_finally(tmatch) == 1

\* the number of set_last_counter calls of one verify_totp call: the one that
\* follows TOTP.verify in the try body, skipped when TOTP.verify raises
writes_of(tmatch) == IF tmatch.err = "none" THEN 1 ELSE 0

\* mutant of store_after: return True comes first, the write is left for
\* later
store_after_deferred(user, tmatch) == lastCounter

\* the store after the try body
store_after(user, tmatch) ==
    IF writes_of(tmatch) = 1 THEN set_last_counter(user, tmatch)
    ELSE lastCounter

\* what the subclass's set_last_counter can raise instead of storing, when
\* its store can fail: an error of its own or, being called inside the try
\* body, one that the except clause catches
WriteErrors == {"StoreError", "InvalidTokenError"}

\* the ways the set_last_counter call of the try body can end: "none" when
\* it returns or is not reached
write_outcomes(tmatch) ==
    IF faulty /\ override /\ writes_of(tmatch) = 1
    THEN {"none"} \cup WriteErrors
    ELSE {"none"}

\* the outcome of the try body: that of TOTP.verify, or the exception of
\* set_last_counter with the counter that had matched
try_outcome(tmatch, werr) ==
    IF werr = "none" THEN tmatch
    ELSE [err |-> werr, counter |-> tmatch.counter]

Idle == [pc |-> "idle"]

\* the application before it has tried to build a Totp object
NoKeys == [i \in {} |-> 0]
NoFactory ==
    [built |-> FALSE, secrets |-> NoKeys, err |-> "unset",
     given |-> [isdict |-> FALSE, secrets |-> NoKeys]]

\* mutant of valid_secrets: the isinstance test is missing
valid_secrets_len(config) == DOMAIN config.secrets # {}

\* Totp.__init__: secrets is a dict with at least one entry
valid_secrets(config) == config.isdict /\ DOMAIN config.secrets # {}

\* the outcome of Totp(secrets, issuer): the object with its keyring, or
\* ValueError and no object
Construct(config) ==
    IF valid_secrets(config)
    THEN [built |-> TRUE, secrets |-> config.secrets, err |-> "none",
          given |-> config]
    ELSE [built |-> FALSE, secrets |-> NoKeys, err |-> "ValueError",
          given |-> config]

Factory(secrets) == Construct([isdict |-> TRUE, secrets |-> secrets])

\* nothing handed out yet
NoOutput == [op |-> "none"]

\* verify_totp, up to the evaluation of its argument get_last_counter(user)
verify_totp_begin(t, token, totp_secret, user, window) ==
    /\ t \in running
    /\ totp.built
    /\ call[t].pc = "idle"
    /\ user \in workload.users[t]
    /\ totp_secret \in workload.envelopes
    /\ window \in workload.windows
    /\ call' = [call EXCEPT ![t] =
                  [pc |-> "verify", user |-> user, token |-> token,
                   env |-> totp_secret, window |-> window,
                   last |-> last_counter_argument(user).last,
                   reads |-> last_counter_argument(user).reads]]
    /\ UNCHANGED <<now, secret, override, lastCounter, running, workload, accepted,
                   totp, out, faulty>>

\* verify_totp, from the call of TOTP.verify to the return
verify_totp_end(t) ==
    /\ t \in running
    /\ call[t].pc = "verify"
    /\ LET c == call[t] IN
         \E tmatch \in {verify(src, c.token, now, c.window, c.last) :
                            src \in from_source(c.env)} :
           \E werr \in write_outcomes(tmatch) :
             /\ lastCounter' = IF werr = "none"
                                THEN store_after(c.user, tmatch)
                                ELSE lastCounter
             /\ call' = [call EXCEPT ![t] =
                   [pc |-> "done", user |-> c.user, token |-> c.token,
                    env |-> c.env, window |-> c.window, last |-> c.last,
                    reads |-> c.reads, at |-> now,
                    result |-> result_of(try_outcome(tmatch, werr)),
                    err |-> try_outcome(tmatch, werr).err,
                    counter |-> tmatch.counter,
                    writes |-> writes_of(tmatch), prior |-> accepted[c.user]]]
             /\ accepted' = IF result_of(try_outcome(tmatch, werr)) = "True"
                             THEN [accepted EXCEPT ![c.user] =
                                     Max(@, tmatch.counter)]
                             ELSE accepted
    /\ UNCHANGED <<now, secret, override, running, workload, totp, out, faulty>>

\* the caller has the outcome of verify_totp; the thread is free again
verify_totp_return(t) ==
    /\ t \in running
    /\ call[t].pc = "done"
    /\ call' = [call EXCEPT ![t] = Idle]
    /\ UNCHANGED <<now, secret, override, lastCounter, running, workload, accepted,
                   totp, out, faulty>>

\* the application starts and builds its Totp object from its configuration;
\* no call is running
Totp_init(config) ==
    /\ \A t \in running : call[t].pc = "idle"
    /\ totp' = Construct(config)
    /\ UNCHANGED <<now, secret, override, lastCounter, running, workload, call,
                   accepted, out, faulty>>

\* the key id new envelopes are tagged with: the largest of the keyring
default_tag(secrets) == CHOOSE i \in DOMAIN secrets : \A j \in DOMAIN secrets : i >= j

\* the key stream cipher of the envelope: the application secret of the tag
\* yields a pad that is added to the key, and taken off again to decrypt
encrypt_key(key, material) ==
    [c \in Counters |-> (key[c] + material) % NumCodes]
decrypt_key(enckey, material) ==
    [c \in Counters |-> (enckey[c] + NumCodes - material) % NumCodes]

\* TOTP.to_json(encrypt=True): the key encrypted under the current key id
to_json(key, secrets) ==
    [tag |-> default_tag(secrets),
     k |-> encrypt_key(key, secrets[default_tag(secrets)])]

\* mutant of from_json: the current key id decrypts, whatever the tag says
from_json_current(envelope, secrets) ==
    [err |-> "none",
     key |-> decrypt_key(envelope.k, secrets[default_tag(secrets)])]

\* TOTP.from_source(totp_secret) on an envelope: the key under the tagged key
\* id, KeyError when the keyring does not hold that id
from_json(envelope, secrets) ==
    IF envelope.tag \notin DOMAIN secrets
    THEN [err |-> "KeyError", key |-> envelope.k]
    ELSE [err |-> "none",
          key |-> decrypt_key(envelope.k, secrets[envelope.tag])]

\* Totp.generate_totp_password(totp_secret) called at the current time: the
\* code of the current counter under the decrypted key, or the exception of
\* from_source
generate_totp_password_now(totp_secret) ==
    /\ totp.built
    /\ totp_secret \in workload.envelopes
    /\ \E src \in from_source(totp_secret) :
         out' = [op |-> "password", env |-> totp_secret, at |-> now,
                 err |-> src.err,
                 token |-> IF src.err = "none"
                           THEN generate_totp_password(src.key, now)
                           ELSE Malformed]
    /\ UNCHANGED <<now, secret, override, lastCounter, running, workload, call,
                   accepted, totp, faulty>>

\* mutant of generate_totp_secret: handing out a new secret also clears the
\* stored last counters
generate_totp_secret_clearing ==
    /\ totp.built
    /\ \E key \in Secrets :
         out' = [op |-> "secret", env |-> to_json(key, totp.secrets),
                 key |-> key,
                 material |-> totp.secrets[default_tag(totp.secrets)],
                 under |-> totp.secrets]
    /\ lastCounter' = [u \in Users |-> None]
    /\ UNCHANGED <<now, secret, override, running, workload, call,
                   accepted, totp, faulty>>

\* Totp.generate_totp_secret: a new random key, handed out encrypted; the key
\* and the application secret used are kept as history
generate_totp_secret ==
    /\ totp.built
    /\ \E key \in Secrets :
         out' = [op |-> "secret", env |-> to_json(key, totp.secrets),
                 key |-> key,
                 material |-> totp.secrets[default_tag(totp.secrets)],
                 under |-> totp.secrets]
    /\ UNCHANGED <<now, secret, override, lastCounter, running, workload, call,
                   accepted, totp, faulty>>

\* Totp.get_totp_uri(username, totp_secret) on the envelope handed out last:
\* the provisioning URI with the decrypted key, or the exception
get_totp_uri(username) ==
    /\ totp.built
    /\ out.op \in {"secret", "uri"}
    /\ LET src == from_json(out.env, totp.secrets) IN
         out' = [op |-> "uri", env |-> out.env, key |-> out.key,
                 material |-> out.material, under |-> totp.secrets,
                 username |-> username, err |-> src.err, uri |-> src.key]
    /\ UNCHANGED <<now, secret, override, lastCounter, running, workload, call,
                   accepted, totp, faulty>>

\* the clock advances by one second
Tick ==
    /\ now < MaxTime
    /\ now' = now + 1
    /\ UNCHANGED <<secret, override, lastCounter, running, workload, call, accepted,
                   totp, out, faulty>>

InitWith(threads, stores, requests) ==
    /\ totp = Factory([i \in {1} |-> 0])
    /\ out = NoOutput
    /\ faulty = FALSE
    /\ now = 0
    /\ secret \in Secrets
    /\ override \in stores
    /\ lastCounter = [u \in Users |-> None]
    /\ running = threads
    /\ workload = requests
    /\ call = [t \in threads |-> Idle]
    /\ accepted = [u \in Users |-> None]

\* one request at a time, any request, with or without a last-counter store
Init ==
    InitWith({"t1"}, BOOLEAN,
             [users |-> [t \in Threads |-> Users], envelopes |-> Envelopes,
              windows |-> Windows])

\* two requests in parallel for one user holding the enrolled envelope, with
\* the default window, the subclass's store not serialising them
InitRace ==
    InitWith(Threads, {TRUE},
             [users |-> [t \in Threads |-> {"u1"}], envelopes |-> {"enrolled"},
              windows |-> {0}])

\* two requests in parallel, each thread serving its own user
InitUsers ==
    InitWith(Threads, {TRUE},
             [users |-> [t \in Threads |-> IF t = "t1" THEN {"u1"} ELSE {"u2"}],
              envelopes |-> {"enrolled"}, windows |-> {MaxWindow}])

Next ==
    \/ \E t \in Threads, token \in Tokens, env \in Envelopes,
          user \in Users, window \in Windows :
            verify_totp_begin(t, token, env, user, window)
    \/ \E t \in Threads : verify_totp_end(t)
    \/ \E t \in Threads : verify_totp_return(t)
    \/ Tick

Spec == Init /\ [][Next]_vars

\* the application from its start: no Totp object yet, then secrets are
\* generated and provisioned while the keyring changes between restarts
InitCodec ==
    /\ totp = NoFactory
    /\ out = NoOutput
    /\ faulty = FALSE
    /\ now = 0
    /\ secret = [c \in Counters |-> 0]
    /\ override = TRUE
    /\ lastCounter = [u \in Users |-> None]
    /\ running = {"t1"}
    /\ workload = [users |-> [t \in Threads |-> Users], envelopes |-> Envelopes,
                   windows |-> Windows]
    /\ call = [t \in {"t1"} |-> Idle]
    /\ accepted = [u \in Users |-> None]

NextCodec ==
    \/ \E config \in Configs : Totp_init(config)
    \/ generate_totp_secret
    \/ \E username \in Users : get_totp_uri(username)

SpecCodec == InitCodec /\ [][NextCodec]_vars

SpecRace == InitRace /\ [][Next]_vars

SpecUsers == InitUsers /\ [][Next]_vars

\* one request at a time for one user holding the enrolled envelope, the
\* subclass's store being one whose write can fail
InitFaulty ==
    /\ totp = Factory([i \in {1} |-> 0])
    /\ out = NoOutput
    /\ faulty = TRUE
    /\ now = 0
    /\ secret \in Secrets
    /\ override = TRUE
    /\ lastCounter = [u \in Users |-> None]
    /\ running = {"t1"}
    /\ workload = [users |-> [t \in Threads |-> {"u1"}],
                   envelopes |-> {"enrolled"}, windows |-> Windows]
    /\ call = [t \in {"t1"} |-> Idle]
    /\ accepted = [u \in Users |-> None]

SpecFaulty == InitFaulty /\ [][Next]_vars

\* verifications for one user with a last-counter store, and between and
\* during them the three operations that verify nothing; the codes being
\* interchangeable, the code of counter 0 is fixed
InitOps ==
    /\ InitWith({"t1"}, {TRUE},
                [users |-> [t \in Threads |-> {"u1"}],
                 envelopes |-> {"enrolled"}, windows |-> {0}])
    /\ secret[0] = 0

NextOps ==
    \/ Next
    \/ generate_totp_secret
    \/ \E totp_secret \in Envelopes : generate_totp_password_now(totp_secret)
    \/ \E username \in Users : get_totp_uri(username)

SpecOps == InitOps /\ [][NextOps]_vars

\* ----------------------------------------------------------------- claims
Done(t) == t \in running /\ call[t].pc = "done"

\* the step in which thread t's verify_totp call returns
Returns(t) == t \in running /\ call[t].pc = "verify" /\ call'[t].pc = "done"

\* the counters whose time steps the window of a finished call touches
WindowLo(c) == Max(0, (c.at - c.window) \div Period)
WindowHi(c) == (c.at + c.window) \div Period
InWindow(c) == WindowLo(c)..WindowHi(c)

\* the counters of the window whose code, under the enrolled secret, is the
\* token of the call
Hits(c) == {k \in InWindow(c) : generate(secret, k) = c.token}

\* C1: with a subclass that stores the last counter, a call that returns
\* True for a user matched a counter larger than every counter accepted for
\* that user before; a resubmitted accepted code is refused.
C1_AntiReplay ==
    [][\A t \in Threads :
         (Returns(t) /\ override /\ call'[t].result = "True")
            => call'[t].counter > accepted[call[t].user]]_vars

\* C1 witness: the code of the counter already accepted is submitted again
\* while that counter is still inside the window, and is refused.
C1_Witness ==
    \E t \in Threads :
        /\ Done(t) /\ override /\ call[t].env = "enrolled"
        /\ call[t].result = "False"
        /\ accepted[call[t].user] # None
        /\ accepted[call[t].user] \in Hits(call[t])

\* C2: a verify_totp call writes the last counter once when it returns True
\* and not at all otherwise; a call that does not return True leaves every
\* user's last counter as it was, and so does the read that opens a call.
C2_WriteOnlyOnSuccess ==
    [][\A t \in Threads :
         /\ Returns(t) =>
              /\ call'[t].writes = (IF call'[t].result = "True" THEN 1 ELSE 0)
              /\ call'[t].result # "True" => lastCounter' = lastCounter
              /\ \A u \in Users \ {call[t].user} :
                    lastCounter'[u] = lastCounter[u]
         /\ (t \in running /\ call[t].pc = "idle" /\ call'[t].pc = "verify")
              => lastCounter' = lastCounter]_vars

\* C2 witness: a refused call for a user whose last counter is stored, and
\* still stored afterwards.
C2_Witness ==
    \E t \in Threads :
        /\ Done(t) /\ override
        /\ call[t].result = "False" /\ call[t].writes = 0
        /\ call[t].last # None
        /\ lastCounter[call[t].user] = call[t].last

\* C3: after a call that returns True the stored last counter of its user is
\* the counter that matched, a counter whose code is the submitted token.
C3_StoresMatchedCounter ==
    [][\A t \in Threads :
         (Returns(t) /\ override /\ call'[t].result = "True") =>
            /\ lastCounter'[call[t].user] = call'[t].counter
            /\ call[t].env = "enrolled" =>
                  generate(secret, call'[t].counter) = call[t].token]_vars

\* C3 witness: the matched counter is not the counter of the current time,
\* and it is the one stored.
C3_Witness ==
    \E t \in Threads :
        /\ Done(t) /\ override /\ call[t].env = "enrolled"
        /\ call[t].result = "True"
        /\ call[t].counter # time_to_counter(call[t].at)
        /\ generate(secret, time_to_counter(call[t].at)) # call[t].token
        /\ now = call[t].at
        /\ lastCounter[call[t].user] = call[t].counter

\* C4: with Totp's own get_last_counter and set_last_counter every call reads
\* None, nothing is stored, and a token is accepted exactly when it is the
\* code of a counter of the window.
C4_DefaultDisablesAntiReplay ==
    ~override =>
        /\ \A u \in Users : lastCounter[u] = None
        /\ \A t \in running :
              /\ call[t].pc \in {"verify", "done"} => call[t].last = None
              /\ (call[t].pc = "done" /\ call[t].env = "enrolled") =>
                    (call[t].result = "True" <=> Hits(call[t]) # {})

\* C4 witness: a code accepted before for the same counter is accepted again.
C4_Witness ==
    \E t \in Threads :
        /\ Done(t) /\ ~override /\ call[t].env = "enrolled"
        /\ call[t].result = "True"
        /\ call[t].prior = call[t].counter


\* C5: two calls in parallel: a call is accepted on the strength of the last
\* counter it read at its start, so a counter is accepted a second time only
\* by a call that read the last counter before the first acceptance wrote it.
C5_ReplayOnlyByStaleRead ==
    \A t \in running :
        (call[t].pc = "done" /\ call[t].result = "True") =>
            /\ call[t].counter > call[t].last
            /\ call[t].prior >= call[t].counter => call[t].last < call[t].prior

\* C5 witness: both calls carried the same code for the same user, both read
\* the last counter before either wrote, and both returned True.
C5_Witness ==
    /\ running = Threads
    /\ \A t \in Threads : call[t].pc = "done" /\ call[t].result = "True"
    /\ call["t1"].user = call["t2"].user
    /\ call["t1"].token = call["t2"].token
    /\ call["t1"].counter = call["t2"].counter
    /\ \A t \in Threads : call[t].last < call[t].counter

\* a finished call's token is the code of no counter of the window
WrongCode(c) == Hits(c) = {}

\* a finished call's token is the code of counters of the window, none of them
\* above the last counter the call read
ReplayedCode(c) ==
    Hits(c) # {} /\ c.last # None /\ \A k \in Hits(c) : k <= c.last

\* C6: a call with a wrong code and a call with a replayed code end alike:
\* both return False, neither raises, neither changes the last counters.
C6_ReplayLikeWrongCode ==
    [][\A t \in Threads :
         (/\ Returns(t)
          /\ call[t].env = "enrolled"
          /\ WrongCode(call'[t]) \/ ReplayedCode(call'[t]))
            => /\ call'[t].result = "False"
               /\ call'[t].writes = 0
               /\ lastCounter' = lastCounter]_vars

\* C6 witness: the library told the replay apart (UsedTokenError), the caller
\* got the False of a wrong code.
C6_Witness ==
    \E t \in Threads :
        /\ Done(t) /\ call[t].env = "enrolled"
        /\ ReplayedCode(call[t])
        /\ call[t].err = "UsedTokenError"
        /\ call[t].result = "False"

\* C7 as claimed: with the window counted in whole steps, w = window / Period
\* around the counter c of the current time, the codes of c - w and c + w are
\* accepted and the codes of c - w - 1 and c + w + 1 refused.
C7_Original ==
    \A t \in running :
        (call[t].pc = "done" /\ call[t].env = "enrolled" /\ call[t].last = None) =>
            LET c == time_to_counter(call[t].at)
                w == call[t].window \div Period
                inside == {generate(secret, k) : k \in Max(0, c - w)..(c + w)}
                tok == call[t].token
            IN  /\ (c - w >= 0 /\ tok = generate(secret, c - w))
                      => call[t].result = "True"
                /\ tok = generate(secret, c + w) => call[t].result = "True"
                /\ (c - w - 1 >= 0 /\ tok = generate(secret, c - w - 1)
                      /\ tok \notin inside) => call[t].result = "False"
                /\ (c + w + 1 <= MaxCounter /\ tok = generate(secret, c + w + 1)
                      /\ tok \notin inside) => call[t].result = "False"

\* C7 as amended: the window is in seconds; for a user with no last counter
\* the codes of the counters of now - window and of now + window are accepted,
\* and the codes of the counters one below and one above them are refused
\* unless they are codes of a counter in between.
C7_WindowInSeconds ==
    \A t \in running :
        (call[t].pc = "done" /\ call[t].env = "enrolled" /\ call[t].last = None) =>
            LET lo == WindowLo(call[t])
                hi == WindowHi(call[t])
                tok == call[t].token
            IN  /\ tok = generate(secret, lo) => call[t].result = "True"
                /\ tok = generate(secret, hi) => call[t].result = "True"
                /\ (lo - 1 >= 0 /\ tok = generate(secret, lo - 1)
                      /\ WrongCode(call[t])) => call[t].result = "False"
                /\ (hi + 1 <= MaxCounter /\ tok = generate(secret, hi + 1)
                      /\ WrongCode(call[t])) => call[t].result = "False"

\* C7 witness: a window that is not a whole number of steps reaches the step
\* below c - w, and its code is accepted.
C7_Witness ==
    \E t \in Threads :
        /\ Done(t) /\ call[t].env = "enrolled" /\ call[t].last = None
        /\ call[t].result = "True"
        /\ call[t].counter = WindowLo(call[t])
        /\ call[t].counter =
              time_to_counter(call[t].at) - (call[t].window \div Period) - 1

\* C8: with window 0 the code of the current time step is accepted for a
\* user whose last counter is absent or smaller than the current counter, and
\* a token that is not the code of the current step is refused.
C8_ExactStep ==
    \A t \in running :
        (call[t].pc = "done" /\ call[t].env = "enrolled" /\ call[t].window = 0) =>
            LET c == time_to_counter(call[t].at) IN
            /\ (/\ call[t].token = generate_totp_password(secret, call[t].at)
                /\ call[t].last = None \/ call[t].last < c)
                  => call[t].result = "True" /\ call[t].counter = c
            /\ call[t].token # generate(secret, c) => call[t].result = "False"

\* C8 witness: the code of the previous step, which is not the code of the
\* current one, is refused with window 0.
C8_Witness ==
    \E t \in Threads :
        /\ Done(t) /\ call[t].env = "enrolled" /\ call[t].window = 0
        /\ call[t].last = None
        /\ time_to_counter(call[t].at) >= 1
        /\ call[t].token = generate(secret, time_to_counter(call[t].at) - 1)
        /\ call[t].token # generate(secret, time_to_counter(call[t].at))
        /\ call[t].result = "False"

Abs(x) == IF x < 0 THEN 0 - x ELSE x

\* C9 as claimed, for a user with no last counter and a window of whole
\* steps: the matched counter is a counter of the window closest to the
\* counter of the current time, and no match means no counter of the window
\* has the code.
C9_Original ==
    \A t \in running :
        (/\ call[t].pc = "done" /\ call[t].env = "enrolled"
         /\ call[t].last = None /\ call[t].window % Period = 0) =>
            LET c == time_to_counter(call[t].at) IN
            /\ call[t].result = "True" =>
                  /\ call[t].counter \in Hits(call[t])
                  /\ \A k \in Hits(call[t]) :
                        Abs(call[t].counter - c) <= Abs(k - c)
            /\ call[t].result = "False" <=> Hits(call[t]) = {}

\* the counters the search of a finished call goes through: the window, from
\* the last counter on
Searched(c) == {k \in Hits(c) : k >= c.last}

\* C9 as amended: the search runs upward from the larger of the window's first
\* counter and the last counter, and the smallest counter with the code is the
\* match; the call returns False exactly when there is none or it is the last
\* counter itself.
C9_AscendingSearch ==
    \A t \in running :
        (call[t].pc = "done" /\ call[t].env = "enrolled") =>
            LET S == Searched(call[t]) IN
            /\ call[t].result = "True" =>
                  /\ call[t].counter \in S
                  /\ \A k \in S : call[t].counter <= k
            /\ call[t].result = "False" <=>
                  (S = {} \/ call[t].last \in S)

\* C9 witness: two counters of the window have the code; the smaller one is
\* matched although the other is closer to the counter of the current time.
C9_Witness ==
    \E t \in Threads :
        /\ Done(t) /\ call[t].env = "enrolled" /\ call[t].result = "True"
        /\ \E k \in Hits(call[t]) :
              Abs(k - time_to_counter(call[t].at)) <
                 Abs(call[t].counter - time_to_counter(call[t].at))

\* C10 as claimed: an envelope with an unknown key tag and an envelope with a
\* tampered ciphertext both make verify_totp raise, without a write.
C10_Original ==
    \A t \in running :
        (call[t].pc = "done" /\ call[t].env \in {"unknown_tag", "tampered"}) =>
            call[t].result = "raise" /\ call[t].writes = 0

\* C10 as amended: an envelope with an unknown key tag makes verify_totp raise
\* (KeyError); every exception of the library that is no TokenError reaches
\* the caller, with no write; False stands for a TokenError only.
C10_RaisedErrorsPropagate ==
    [][\A t \in Threads :
         Returns(t) =>
            /\ call[t].env = "unknown_tag" =>
                  call'[t].result = "raise" /\ call'[t].err = "KeyError"
            /\ call'[t].err \in {"KeyError", "ValueError"} =>
                  call'[t].result = "raise"
            /\ call'[t].result = "raise" =>
                  call'[t].writes = 0 /\ lastCounter' = lastCounter
            /\ call'[t].result = "False" =>
                  call'[t].err \in {"MalformedTokenError", "InvalidTokenError",
                                    "UsedTokenError"}]_vars

\* C10 witness: the call with the unknown key tag has raised and the stored
\* last counter of its user is the one it read.
C10_Witness ==
    \E t \in Threads :
        /\ Done(t) /\ call[t].env = "unknown_tag"
        /\ call[t].result = "raise"
        /\ call[t].last # None
        /\ lastCounter[call[t].user] = call[t].last


\* C11: Totp(secrets, issuer) raises at construction, and leaves no Totp
\* object, exactly when secrets is not a dict or is empty; with a dict of at
\* least one entry the object holds that keyring.  Without an object no
\* secret is generated and none is provisioned.
C11_RejectedAtConstruction ==
    [][/\ totp'.err # "unset" =>
            /\ totp'.err = "ValueError" <=>
                  (~totp'.given.isdict \/ DOMAIN totp'.given.secrets = {})
            /\ totp'.err = "ValueError" => ~totp'.built
            /\ totp'.err = "none" =>
                  totp'.built /\ totp'.secrets = totp'.given.secrets
       /\ ~totp.built => out' = out]_vars

\* C11 witness: a secret was generated under a valid keyring, then the
\* application was started with an empty dict: no object, and nothing new.
C11_Witness ==
    /\ totp.err = "ValueError" /\ ~totp.built
    /\ totp.given.isdict /\ DOMAIN totp.given.secrets = {}
    /\ out.op = "secret"

C13_PerUserIsolation ==
    [][/\ \A t \in Threads :
            (t \in running /\ call'[t] # call[t]) =>
                \A u \in Users :
                    (call[t].pc = "idle" \/ u # call[t].user)
                        => lastCounter'[u] = lastCounter[u]
       /\ \A t \in Threads :
            (t \in running /\ call'[t].pc = "verify")
                => call'[t].last = lastCounter'[call'[t].user]
       /\ \A u \in Users : lastCounter'[u] = accepted'[u]
       /\ \A t \in Threads :
            Returns(t) =>
                LET alone == match(secret, call[t].token, now, call[t].window,
                                   accepted[call[t].user])
                IN  /\ call'[t].result = result_of(alone)
                    /\ call'[t].counter = alone.counter]_vars

\* C13 witness: u2's call is still running with the last counter it read
\* while u1's call has been accepted and stored, and u2 was accepted before.
C13_Witness ==
    /\ running = Threads
    /\ call["t1"].pc = "done" /\ call["t1"].user = "u1"
    /\ call["t1"].result = "True"
    /\ call["t2"].pc = "verify" /\ call["t2"].user = "u2"
    /\ call["t2"].last # None
    /\ lastCounter["u1"] # lastCounter["u2"]
    /\ lastCounter["u1"] = call["t1"].counter
\* C14 as stated: get_last_counter is called only after a counter has
\* matched, so a call inside TOTP.verify has not read yet and a call whose
\* token matches no counter of the window ends without a read.
C14_Original ==
    \A t \in running :
        /\ call[t].pc = "verify" => call[t].reads = 0
        /\ (call[t].pc = "done" /\ call[t].env = "enrolled"
                /\ WrongCode(call[t])) => call[t].reads = 0

\* C14: get_last_counter is called once per verify_totp call, before
\* TOTP.verify searches, whatever the token: the call enters TOTP.verify with
\* its user's stored last counter read, the search and the return add no
\* read, and a call whose token matches no counter of the window returns False
\* having read once and written nothing.
C14_ReadBeforeSearch ==
    [][\A t \in Threads :
         /\ (t \in running /\ call[t].pc = "idle" /\ call'[t].pc = "verify") =>
               /\ call'[t].reads = 1
               /\ call'[t].last = (IF override THEN lastCounter[call'[t].user]
                                    ELSE None)
         /\ Returns(t) =>
               /\ call'[t].reads = call[t].reads
               /\ call'[t].reads = 1
               /\ call'[t].last = call[t].last
               /\ (call[t].env = "enrolled" /\ WrongCode(call'[t])) =>
                     /\ call'[t].result = "False"
                     /\ call'[t].writes = 0]_vars

\* C14 witness: a call whose token matches no counter of the window has
\* returned False after reading its user's stored last counter.
C14_Witness ==
    \E t \in Threads :
        /\ Done(t) /\ override /\ call[t].env = "enrolled"
        /\ WrongCode(call[t]) /\ call[t].result = "False"
        /\ call[t].reads = 1 /\ call[t].last # None
        /\ call[t].last = lastCounter[call[t].user]
\* C15: generate_totp_secret, generate_totp_password and get_totp_uri, run
\* between or during verify_totp calls, change no user's last counter, not
\* the enrolled secret and no call in progress; the last counter changes only
\* in the step that ends an accepted verify_totp call, and every verify_totp
\* call ends as the accepted calls before it alone determine.
C15_ReadOnlyOperations ==
    [][/\ out' # out =>
            /\ lastCounter' = lastCounter
            /\ secret' = secret
            /\ call' = call
            /\ accepted' = accepted
       /\ lastCounter' # lastCounter =>
            \E t \in Threads : Returns(t) /\ call'[t].result = "True"
       /\ \A t \in Threads :
            Returns(t) =>
                LET alone == match(secret, call[t].token, now, call[t].window,
                                   accepted[call[t].user])
                IN  /\ call'[t].result = result_of(alone)
                    /\ call'[t].counter = alone.counter]_vars

\* C15 witness: a code was generated for the enrolled secret after a
\* verify_totp call had stored its user's last counter, and that call and the
\* stored counter are as they were.
C15_Witness ==
    \E t \in Threads :
        /\ Done(t) /\ call[t].result = "True"
        /\ out.op = "password" /\ out.err = "none"
        /\ out.at > call[t].at
        /\ out.token = call[t].token
        /\ lastCounter[call[t].user] = call[t].counter
        /\ lastCounter[call[t].user] # time_to_counter(out.at)
\* C16: calls made one after the other with a subclass that stores: no step
\* lowers a user's stored last counter or makes it None again, every call
\* that returns True raises its user's stored last counter, and nothing else
\* changes it.
C16_MonotoneLastCounter ==
    [][override =>
         /\ \A u \in Users :
               /\ lastCounter'[u] >= lastCounter[u]
               /\ lastCounter[u] # None => lastCounter'[u] # None
               /\ lastCounter'[u] # lastCounter[u] =>
                     \E t \in Threads :
                         /\ Returns(t) /\ call[t].user = u
                         /\ call'[t].result = "True"
         /\ \A t \in Threads :
               (Returns(t) /\ call'[t].result = "True") =>
                   lastCounter'[call[t].user] > lastCounter[call[t].user]]_vars

\* C16 witness: a user's stored last counter was raised from one counter to
\* a larger one by a call whose window still held the earlier counter.
C16_Witness ==
    \E t \in Threads :
        /\ Done(t) /\ override /\ call[t].result = "True"
        /\ call[t].last # None
        /\ call[t].last \in InWindow(call[t])
        /\ lastCounter[call[t].user] = call[t].counter
        /\ call[t].counter > call[t].last
\* a finished call carried the code of the counter of the time it ran at,
\* for the enrolled secret, and that counter is above the last counter read
CurrentCode(c) ==
    /\ c.env = "enrolled"
    /\ c.token = generate_totp_password(secret, c.at)
    /\ c.last < time_to_counter(c.at)

\* the last counter a finished call read is still inside its window and has
\* the code the call carried
SameCodeAsLast(c) ==
    /\ c.last # None
    /\ c.last >= WindowLo(c)
    /\ generate(secret, c.last) = c.token

\* C17 as stated: the code of the current counter, a counter above the
\* user's stored last counter, is accepted whatever the window.
C17_Original ==
    \A t \in running :
        (call[t].pc = "done" /\ CurrentCode(call[t]))
            => call[t].result = "True"

\* C17: the code of the current counter, a counter above the user's stored
\* last counter, is accepted unless the stored last counter is still inside
\* the window and has the same code; it is accepted whenever the window is 0
\* and whenever the time step of the stored last counter has left the
\* window, so for a user holding the secret the refusals end as time advances.
C17_NoLockout ==
    \A t \in running :
        (call[t].pc = "done" /\ CurrentCode(call[t])) =>
            /\ call[t].result = "True" <=> ~SameCodeAsLast(call[t])
            /\ call[t].result # "True" => call[t].err = "UsedTokenError"
            /\ call[t].window = 0 => call[t].result = "True"
            /\ call[t].last < WindowLo(call[t]) => call[t].result = "True"

\* C17 witness: after a counter was accepted and stored, time has moved on
\* to the next counter, the stored one is still inside the window, and the
\* code of the current counter is accepted.
C17_Witness ==
    \E t \in Threads :
        /\ Done(t) /\ override /\ CurrentCode(call[t])
        /\ call[t].last # None /\ call[t].last >= WindowLo(call[t])
        /\ call[t].window > 0
        /\ call[t].result = "True"
        /\ call[t].counter = time_to_counter(call[t].at)
        /\ lastCounter[call[t].user] = call[t].counter
\* C18: a call returns True only with its write done: when it returns True
\* its user's stored last counter is the counter it matched, not a smaller
\* one, and stays so while the call's result stands; a call whose
\* set_last_counter raised does not return True, and the stored last counter
\* is as it was.
C18_TrueOnlyAfterWrite ==
    [][\A t \in Threads :
         /\ (t \in running /\ call'[t].pc = "done"
                /\ call'[t].result = "True") =>
               /\ call'[t].writes = 1
               /\ lastCounter'[call'[t].user] >= call'[t].counter
         /\ Returns(t) =>
               /\ call'[t].result = "True" =>
                     /\ call'[t].err = "none"
                     /\ lastCounter'[call[t].user] = call'[t].counter
               /\ (call'[t].writes = 1 /\ call'[t].err # "none") =>
                     /\ call'[t].result # "True"
                     /\ lastCounter' = lastCounter
                     /\ accepted' = accepted]_vars

\* C18 witness: the token matched a counter, set_last_counter raised, the
\* call ended with that exception and the stored last counter is still below
\* the matched counter.
C18_Witness ==
    \E t \in Threads :
        /\ Done(t) /\ faulty /\ call[t].writes = 1
        /\ call[t].err = "StoreError" /\ call[t].result = "raise"
        /\ call[t].last # None
        /\ lastCounter[call[t].user] = call[t].last
        /\ lastCounter[call[t].user] < call[t].counter
====
